---- MODULE Spec2Model ----
(***************************************************************************)
(* The authentication and authorization layer of the civic-engagement      *)
(* backend: password hashing, token issue/verify, the two access-control   *)
(* gates, and the auth endpoints, over the users table.                    *)
(*                                                                         *)
(* Strings are sequences of one-character (or one-lexeme) strings so that  *)
(* the validators (length, digits, e-mail shape) compute on them.          *)
(***************************************************************************)
EXTENDS Integers, Sequences, FiniteSets, TLC

(***************************************************************************)
(* Bounds of the model.                                                    *)
(***************************************************************************)
\* ids the serial column hands out before the model stops inserting
MaxId == 3
\* clock steps taken before the model stops advancing time
MaxTicks == 2
\* HTTP requests sent before the model stops sending
MaxRequests == 3
\* rows removed from the users table before the model stops removing
MaxDeletes == 1
\* is_admin flags set by the database operator before the model stops setting
MaxGrants == 1
\* ids the complaints table's serial column hands out before the model stops
\* inserting
MaxComplaintId == 2

Clients == {"c1", "c2"}

(***************************************************************************)
(* JSON values of a request body: a string, or a missing key.              *)
(***************************************************************************)
Str(s) == [t |-> "string", s |-> s]
Undefined == [t |-> "undefined", s |-> <<>>]
True == [t |-> "boolean", s |-> <<"true">>]

Digits == {"0", "1", "2", "3", "4", "5", "6", "7", "8", "9"}

JohnEmail == <<"john", "@", "example", ".", "com">>
AdminEmail == <<"admin", "@", "example", ".", "com">>
JaneEmail == <<"jane", "@", "example", ".", "com">>
BadEmail == <<"john", "example", ".", "com">>
JohnPhone == <<"9", "8", "7", "6", "5", "4", "3", "2", "1", "0">>
AdminPhone == <<"1", "2", "3", "4", "5", "6", "7", "8", "9", "0">>
JanePhone == <<"5", "5", "5", "0", "1", "0", "0", "2", "0", "0">>
BadPhone == <<"9", "8", "7", "6", "5">>
Password123 == <<"p", "a", "s", "s", "w", "o", "r", "d", "1", "2", "3">>
AdminPassword == <<"a", "d", "m", "i", "n", "p", "a", "s", "s", "w", "o", "r", "d">>
ShortPassword == <<"p", "a", "s", "s">>
EmptyString == <<>>
FullName == <<"John", " ", "Doe">>

(***************************************************************************)
(* zod: a string schema returns "aborted" when the value is not a string   *)
(* (invalid_type), "dirty" when a check (email, regex, min) fails, "valid" *)
(* otherwise.  An object schema runs every key's schema, collects every    *)
(* issue, and is aborted when any key is aborted.  A refinement runs       *)
(* unless the inner schema aborted.                                        *)
(***************************************************************************)
Issue(path, message) == [path |-> path, message |-> message]

\* z.string().email(): one "@", a non-empty local part, a dotted domain
IsEmail(s) ==
    /\ Cardinality({i \in 1..Len(s) : s[i] = "@"}) = 1
    /\ LET at == CHOOSE i \in 1..Len(s) : s[i] = "@"
       IN  /\ at > 1
           /\ at + 2 < Len(s)
           /\ s[at + 1] # "."
           /\ s[Len(s)] # "."
           /\ \E i \in (at + 2)..(Len(s) - 1) : s[i] = "."

\* /^\d{10}$/
PhoneDigits == 10
IsPhone(s) == Len(s) = PhoneDigits /\ \A i \in 1..Len(s) : s[i] \in Digits

MinPasswordLen == 8
MinLoginPasswordLen == 1

\* z.string() with one check: the status and the issues at `path`
ZString(v, path, checkOk, message) ==
    IF v.t # "string"
    THEN [status |-> "aborted", issues |-> {Issue(path, "Required")}]
    ELSE IF ~checkOk
    THEN [status |-> "dirty", issues |-> {Issue(path, message)}]
    ELSE [status |-> "valid", issues |-> {}]

\* ParseStatus.mergeObjectSync over the keys' results
MergeObject(results) ==
    [status |-> IF \E r \in results : r.status = "aborted" THEN "aborted"
                ELSE IF \E r \in results : r.status = "dirty" THEN "dirty"
                ELSE "valid",
     issues |-> UNION {r.issues : r \in results}]

\* the object inside registerUserSchema: fullName, email, phone, password,
\* confirmPassword (id, isAdmin, createdAt, updatedAt omitted)
RegisterObject(body) ==
    MergeObject({
        ZString(body.fullName, "fullName", TRUE, ""),
        ZString(body.email, "email", IsEmail(body.email.s),
                "Please enter a valid email address"),
        ZString(body.phone, "phone", IsPhone(body.phone.s),
                "Phone number must be 10 digits"),
        ZString(body.password, "password", Len(body.password.s) >= MinPasswordLen,
                "Password must be at least 8 characters"),
        ZString(body.confirmPassword, "confirmPassword", TRUE, "")})

\* .refine(data => data.password === data.confirmPassword, path confirmPassword)
RefineConfirm(inner, body) ==
    IF inner.status = "aborted" THEN inner
    ELSE IF body.password # body.confirmPassword
    THEN [status |-> "dirty",
          issues |-> inner.issues \cup {Issue("confirmPassword", "Passwords don't match")}]
    ELSE inner

\* registerUserSchema.parse: the ZodError's issues, empty when it returns
registerUserSchema(body) == RefineConfirm(RegisterObject(body), body).issues

\* loginSchema.parse
loginSchema(body) ==
    MergeObject({
        ZString(body.email, "email", IsEmail(body.email.s),
                "Please enter a valid email address"),
        ZString(body.password, "password", Len(body.password.s) >= MinLoginPasswordLen,
                "Password is required")}).issues

(***************************************************************************)
(* bcrypt.  A hash is the version-and-cost prefix, the salt, and a digest  *)
(* that is equal exactly when salt and plaintext are equal (the digest is  *)
(* kept symbolic: the plaintext tagged by the prefix and salt).            *)
(***************************************************************************)
\* the salts bcrypt.genSalt draws from
Salts == {"saltA"}
\* version 2b, cost factor saltRounds = 10
BcryptPrefix == "$2b$10$"

BcryptHash(password, salt) == <<BcryptPrefix, salt>> \o password

IsBcryptHash(h) == Len(h) >= 2 /\ h[1] = BcryptPrefix /\ h[2] \in Salts

hashPassword(password, salt) == BcryptHash(password, salt)

\* bcrypt.compare: false for a string that is no bcrypt hash
comparePasswords(password, hashedPassword) ==
    /\ Len(hashedPassword) >= 2
    /\ hashedPassword[1] = BcryptPrefix
    /\ hashedPassword[2] \in Salts
    /\ hashedPassword = BcryptHash(password, hashedPassword[2])

(***************************************************************************)
(* jsonwebtoken.  A token carries {id, iat, exp} and a signature over them *)
(* under the secret; the signature is kept symbolic (secret and payload).  *)
(* Time is in seconds.                                                     *)
(***************************************************************************)
JWT_SECRET == "your-secret-key-change-in-production"
\* expiresIn: "7d"
TokenTTL == 604800
ClockStep == TokenTTL \div 2

Sign(id, iat, exp, secret) == <<secret, id, iat, exp>>

NoToken == [fmt |-> "none", id |-> 0, iat |-> 0, exp |-> 0, sig |-> <<>>]
Garbage == [fmt |-> "garbage", id |-> 0, iat |-> 0, exp |-> 0, sig |-> <<>>]
Null == [null |-> TRUE, id |-> 0, iat |-> 0, exp |-> 0]

\* faulty variant: the token names the next id
generateToken_OtherUser(userId, now) ==
    [fmt |-> "jwt", id |-> userId + 1, iat |-> now, exp |-> now + TokenTTL,
     sig |-> Sign(userId + 1, now, now + TokenTTL, JWT_SECRET)]

\* faulty variant: signs under a secret verifyToken does not use
generateToken_OtherSecret(userId, now) ==
    [fmt |-> "jwt", id |-> userId, iat |-> now, exp |-> now + TokenTTL,
     sig |-> Sign(userId, now, now + TokenTTL, "another-secret")]

\* jwt.sign({ id: userId }, JWT_SECRET, { expiresIn: "7d" }) at time `now`
generateToken(userId, now) ==
    [fmt |-> "jwt", id |-> userId, iat |-> now, exp |-> now + TokenTTL,
     sig |-> Sign(userId, now, now + TokenTTL, JWT_SECRET)]

\* jwt.verify: the error it throws, or "ok"
jwtVerify(token, secret, now) ==
    IF token.fmt # "jwt" THEN "JsonWebTokenError: jwt malformed"
    ELSE IF token.sig # Sign(token.id, token.iat, token.exp, secret)
    THEN "JsonWebTokenError: invalid signature"
    ELSE IF now >= token.exp THEN "TokenExpiredError: jwt expired"
    ELSE "ok"

\* faulty variant: jwt.decode in place of jwt.verify (no signature, no expiry)
verifyToken_DecodeOnly(token, now) ==
    IF token.fmt = "jwt"
    THEN [null |-> FALSE, id |-> token.id, iat |-> token.iat, exp |-> token.exp]
    ELSE Null

\* verifyToken: the decoded payload, or null when jwt.verify throws
verifyToken(token, now) ==
    IF jwtVerify(token, JWT_SECRET, now) = "ok"
    THEN [null |-> FALSE, id |-> token.id, iat |-> token.iat, exp |-> token.exp]
    ELSE Null

\* what a client without the secret can make of a token it holds
TamperId(t) == [t EXCEPT !.id = (t.id % MaxId) + 1]
TamperExp(t) == [t EXCEPT !.exp = t.exp + TokenTTL]
FlipSig(t) == [t EXCEPT !.sig = Sign(t.id, t.iat, t.exp, "flipped")]
Tampered(t) == IF t.fmt = "jwt" THEN {TamperId(t), TamperExp(t), FlipSig(t)} ELSE {}

(***************************************************************************)
(* The users table and the storage operations on it.                       *)
(***************************************************************************)
NoUser == [id |-> 0, fullName |-> <<>>, email |-> <<>>, phone |-> <<>>,
           password |-> <<>>, isAdmin |-> FALSE]

\* the rows the seed script inserts: the password column holds the seed's
\* password string as it is written there
userSeeds ==
    {[id |-> 1, fullName |-> <<"Admin", " ", "User">>, email |-> AdminEmail,
      phone |-> AdminPhone, password |-> AdminPassword, isAdmin |-> TRUE],
     [id |-> 2, fullName |-> FullName, email |-> JohnEmail,
      phone |-> JohnPhone, password |-> Password123, isAdmin |-> FALSE]}

\* the row of the complaints table the seed script inserts
complaintSeeds == {[id |-> 1, userId |-> 2, status |-> "pending"]}

\* the tables the process finds when it starts: empty, or seeded
InitialStores ==
    {[rows |-> {}, seq |-> 1, complaints |-> {}, cseq |-> 1],
     [rows |-> userSeeds, seq |-> Cardinality(userSeeds) + 1,
      complaints |-> complaintSeeds, cseq |-> Cardinality(complaintSeeds) + 1]}

\* db.select().from(users).where(eq(users.id, id)): the row, or undefined
getUserById(rows, id) ==
    IF \E u \in rows : u.id = id THEN CHOOSE u \in rows : u.id = id ELSE NoUser

\* faulty variant: the query filters on the phone column
getUserByEmail_ByPhone(rows, email) ==
    IF \E u \in rows : u.phone = email
    THEN CHOOSE u \in rows : u.phone = email ELSE NoUser

\* db.select().from(users).where(eq(users.email, email))
getUserByEmail(rows, email) ==
    IF \E u \in rows : u.email = email
    THEN CHOOSE u \in rows : u.email = email ELSE NoUser

\* faulty variant: the email column without .unique()
ViolatesUnique_PhoneOnly(rows, userData) ==
    \E u \in rows : u.phone = userData.phone

\* email: .unique(), phone: .unique()
ViolatesUnique(rows, userData) ==
    \E u \in rows : u.email = userData.email \/ u.phone = userData.phone

\* the row db.insert(users).values(userData).returning() yields
createUser(userData, id) ==
    [id |-> id, fullName |-> userData.fullName, email |-> userData.email,
     phone |-> userData.phone, password |-> userData.password,
     isAdmin |-> userData.isAdmin]

\* db.update(users).set({ isAdmin: true }).where(eq(users.id, id))
setUserAsAdmin(rows, id) ==
    {IF u.id = id THEN [u EXCEPT !.isAdmin = TRUE] ELSE u : u \in rows}

\* a missing complaint
NoComplaint == [id |-> 0, userId |-> 0, status |-> ""]

\* faulty variant: the userId filter is dropped
getComplaints_Unfiltered(rows, userId, status) ==
    IF status # "" THEN {k \in rows : k.status = status} ELSE rows

\* getComplaints(userId?, status?): an undefined argument is 0, "" here,
\* which the code's truthiness tests treat alike
getComplaints(rows, userId, status) ==
    IF userId # 0 /\ status # ""
    THEN {k \in rows : k.userId = userId /\ k.status = status}
    ELSE IF userId # 0 THEN {k \in rows : k.userId = userId}
    ELSE IF status # "" THEN {k \in rows : k.status = status}
    ELSE rows

\* db.select().from(complaints).where(eq(complaints.id, id))
getComplaint(rows, id) ==
    IF \E k \in rows : k.id = id THEN CHOOSE k \in rows : k.id = id ELSE NoComplaint

\* the row db.insert(complaints).values(complaint).returning() yields
createComplaint(complaint, id) ==
    [id |-> id, userId |-> complaint.userId,
     status |-> IF complaint.status # "" THEN complaint.status ELSE "pending"]

\* db.update(complaints).set({ ...updateData }).where(eq(complaints.id, id))
updateComplaint(rows, id, updateData) ==
    {IF k.id = id /\ updateData.status # ""
     THEN [k EXCEPT !.status = updateData.status] ELSE k : k \in rows}

\* faulty variant: the request's isAdmin is stored
RegisterValues_MassAssigned(userData, hashedPassword) ==
    [fullName |-> userData.fullName.s, email |-> userData.email.s,
     phone |-> userData.phone.s, password |-> hashedPassword,
     isAdmin |-> userData.isAdmin = True]

\* faulty variant: the password is stored as it was sent
RegisterValues_Plaintext(userData, hashedPassword) ==
    [fullName |-> userData.fullName.s, email |-> userData.email.s,
     phone |-> userData.phone.s, password |-> userData.password.s, isAdmin |-> FALSE]

\* the values register() hands to storage.createUser
RegisterValues(userData, hashedPassword) ==
    [fullName |-> userData.fullName.s, email |-> userData.email.s,
     phone |-> userData.phone.s, password |-> hashedPassword, isAdmin |-> FALSE]

(***************************************************************************)
(* Routes and their middleware chains.                                     *)
(***************************************************************************)
Routes == {
    [route |-> "GET /api/auth/user", chain |-> <<"isAuthenticated">>],
    [route |-> "GET /api/auth/admin", chain |-> <<"isAuthenticated", "isAdmin">>],
    [route |-> "POST /api/projects", chain |-> <<"isAuthenticated", "isAdmin">>],
    [route |-> "PUT /api/projects/:id", chain |-> <<"isAuthenticated", "isAdmin">>],
    [route |-> "DELETE /api/projects/:id", chain |-> <<"isAuthenticated", "isAdmin">>],
    [route |-> "POST /api/media", chain |-> <<"isAuthenticated", "isAdmin", "upload">>],
    [route |-> "DELETE /api/media/:id", chain |-> <<"isAuthenticated", "isAdmin">>],
    [route |-> "GET /api/complaints", chain |-> <<"isAuthenticated">>],
    [route |-> "GET /api/complaints/:id", chain |-> <<"isAuthenticated">>],
    [route |-> "POST /api/complaints", chain |-> <<"isAuthenticated", "upload">>],
    [route |-> "GET /api/complaints/stats", chain |-> <<"isAuthenticated", "isAdmin">>],
    [route |-> "PATCH /api/complaints/:id", chain |-> <<"isAuthenticated", "isAdmin">>],
    [route |-> "POST /api/events", chain |-> <<"isAuthenticated", "isAdmin">>],
    [route |-> "DELETE /api/events/:id", chain |-> <<"isAuthenticated", "isAdmin">>],
    [route |-> "POST /api/admin/promote/:userId", chain |-> <<"isAuthenticated", "isAdmin">>]}

GatedRoutes == {r.route : r \in Routes}

\* faulty variant: the chain installed in reverse order
Chain_AdminFirst(route) ==
    LET chain == (CHOOSE r \in Routes : r.route = route).chain
    IN  [i \in 1..Len(chain) |-> chain[Len(chain) + 1 - i]]

Chain(route) == (CHOOSE r \in Routes : r.route = route).chain

\* the routes that read or write the complaints table
ComplaintRoutes == {"GET /api/complaints", "GET /api/complaints/:id",
                    "POST /api/complaints", "PATCH /api/complaints/:id"}

\* the other routes whose handler awaits the store after the gates
ResourceRoutes == (GatedRoutes \ {"GET /api/auth/user", "GET /api/auth/admin",
                                  "POST /api/admin/promote/:userId"})
                  \ ComplaintRoutes

\* the statuses a resource handler sends (its tables are not modelled)
ResourceStatuses(route) ==
    CASE route \in {"POST /api/projects", "POST /api/events", "POST /api/media"}
           -> {201, 400, 500}
      [] route = "PUT /api/projects/:id" -> {200, 400, 404, 500}
      [] OTHER -> {200, 500}

(***************************************************************************)
(* Request bodies the clients send.                                        *)
(***************************************************************************)
Body(fullName, email, phone, password, confirmPassword) ==
    [fullName |-> fullName, email |-> email, phone |-> phone,
     password |-> password, confirmPassword |-> confirmPassword,
     isAdmin |-> Undefined]

\* the body with the key isAdmin: true added
WithIsAdmin(body) == [body EXCEPT !.isAdmin = True]

\* the keys registerUserSchema keeps (it strips every other key)
RegisterFields == {"fullName", "email", "phone", "password", "confirmPassword"}

NoBody == Body(Undefined, Undefined, Undefined, Undefined, Undefined)

\* two with one email, two with one phone, two with neither in common; one
\* of them carries isAdmin: true
ValidRegisterBodies ==
    {Body(Str(FullName), Str(ep[1]), Str(ep[2]), Str(Password123), Str(Password123)) :
        ep \in {<<JohnEmail, JohnPhone>>, <<JohnEmail, AdminPhone>>}}
    \cup
    {WithIsAdmin(Body(Str(FullName), Str(AdminEmail), Str(JohnPhone),
                      Str(Password123), Str(Password123)))}

\* a visitor in no seeded row, and one whose email is seeded
ComplaintRegisterBodies ==
    {Body(Str(FullName), Str(ep[1]), Str(ep[2]), Str(Password123), Str(Password123)) :
        ep \in {<<JaneEmail, JanePhone>>, <<JohnEmail, JohnPhone>>}}

\* every combination of a missing or present name, a missing, malformed or
\* well-formed email, a missing, short or ten-digit phone, a missing, short
\* or long enough password, and a missing, different or equal confirmation
AllRegisterBodies ==
    {Body(n, e, p, w, c) :
        n \in {Undefined, Str(FullName)},
        e \in {Undefined, Str(BadEmail), Str(JohnEmail)},
        p \in {Undefined, Str(BadPhone), Str(JohnPhone)},
        w \in {Undefined, Str(ShortPassword), Str(Password123)},
        c \in {Undefined, Str(ShortPassword), Str(Password123)}}

\* the bodies sent where registration runs beside the other endpoints
RegisterBodies ==
    ValidRegisterBodies
    \cup
    {Body(Str(FullName), Str(JohnEmail), Str(JohnPhone), Str(Password123),
          Str(ShortPassword)),
     Body(Undefined, Str(BadEmail), Str(JohnPhone), Str(ShortPassword),
          Str(Password123))}

LoginBodies ==
    {Body(Undefined, Str(ew[1]), Undefined, Str(ew[2]), Undefined) :
        ew \in {<<JohnEmail, Password123>>, <<JohnEmail, AdminPassword>>,
                <<AdminEmail, AdminPassword>>}}
    \cup
    {Body(Undefined, Str(BadEmail), Undefined, Str(EmptyString), Undefined),
     Body(Undefined, Undefined, Undefined, Undefined, Undefined)}

(***************************************************************************)
(* State.                                                                  *)
(***************************************************************************)
VARIABLES
    users,      \* the rows of the users table
    nextId,     \* the next value of the serial id column
    clock,      \* the wall clock, in seconds
    ticks,      \* clock steps taken
    jar,        \* per client: the "token" cookie (NoToken when absent)
    kept,       \* per client: the last token received, kept aside by the client
    reqs,       \* per client: its request in flight (Idle when none)
    last,       \* the request answered most recently, with its response
    sent,       \* requests sent so far
    deletes,    \* rows removed so far
    grants,     \* is_admin flags set by the operator so far
    complaints, \* the rows of the complaints table
    nextComplaintId \* the next value of its serial id column

vars == <<users, nextId, clock, ticks, jar, kept, reqs, last, sent, deletes, grants,
          complaints, nextComplaintId>>

\* the body of a complaint request: the userId it names (0: none), whether
\* its required fields are there, the status it names ("": none)
ComplaintBody(userId, complete, status) ==
    [userId |-> userId, complete |-> complete, status |-> status]

NoComplaintBody == ComplaintBody(0, FALSE, "")

Idle ==
    [client |-> "none", route |-> "none", pc |-> "idle", body |-> NoBody, token |-> NoToken,
     param |-> 0, upload |-> "ok", query |-> "", cbody |-> NoComplaintBody,
     resComplaints |-> {}, decoded |-> Null, user |-> NoUser, ran |-> <<>>,
     status |-> 0, message |-> "", errors |-> {}, resUser |-> NoUser,
     setCookie |-> NoToken, clearCookie |-> FALSE, logged |-> "",
     pos |-> 0, unhandled |-> FALSE]

Init ==
    /\ \E st \in InitialStores :
         /\ users = st.rows
         /\ nextId = st.seq
         /\ complaints = st.complaints
         /\ nextComplaintId = st.cseq
    /\ clock = 0
    /\ ticks = 0
    /\ jar = [c \in Clients |-> NoToken]
    /\ kept = [c \in Clients |-> NoToken]
    /\ reqs = [c \in Clients |-> Idle]
    /\ last = Idle
    /\ sent = 0
    /\ deletes = 0
    /\ grants = 0

\* res.status(status).json({ message })
Respond(r, status, message) ==
    [r EXCEPT !.pc = "done", !.status = status, !.message = message,
              !.pos = 0, !.decoded = Null]

\* a client may send when it has nothing in flight
CanSend(c) == reqs[c].pc = "idle" /\ sent < MaxRequests

\* a new request of client c
NewRequest(c, route) == [Idle EXCEPT !.client = c, !.route = route]

\* the request goes on waiting, or its response is sent and the slot is free
Settle(c, r) ==
    /\ reqs' = [reqs EXCEPT ![c] = IF r.pc = "done" THEN Idle ELSE r]
    /\ last' = IF r.pc = "done" THEN r ELSE last

\* the process is alive while no handler let an error escape
ProcessUp == ~last.unhandled

\* what a client can put in the "token" cookie of a request
Presentable(c) == {jar[c], kept[c], NoToken, Garbage} \cup Tampered(kept[c])

\* faulty variant: clearCookie leaves the cookie in place
JarAfter_KeepsCookie(c, r) ==
    IF r.pc = "done" /\ r.setCookie # NoToken THEN r.setCookie ELSE jar[c]

\* the browser applies Set-Cookie / clearCookie of a response
JarAfter(c, r) ==
    IF r.pc = "done" /\ r.setCookie # NoToken THEN r.setCookie
    ELSE IF r.pc = "done" /\ r.clearCookie THEN NoToken
    ELSE jar[c]

KeptAfter(c, r) ==
    IF r.pc = "done" /\ r.setCookie # NoToken THEN r.setCookie ELSE kept[c]

\* thrown values
Err(kind, message) == [kind |-> kind, message |-> message]
NoError == Err("none", "")
StoreDown == Err("Error", "Connection terminated unexpectedly")
UniqueViolation == Err("Error", "duplicate key value violates unique constraint")
InvalidCredentials == Err("Error", "Invalid email or password")
RegisterFailed == Err("Error", "Failed to register user")

(***************************************************************************)
(* POST /api/auth/register                                                 *)
(***************************************************************************)
\* the route's catch: a ZodError is answered 400, anything else 500
RegisterRouteCatch(r, error, issues) ==
    IF error.kind = "ZodError"
    THEN [Respond(r, 400, "Validation error") EXCEPT !.errors = issues]
    ELSE [Respond(r, 500, "Failed to register user") EXCEPT !.logged = error.message]

\* the handler up to its first await: parse, then query the store
RegisterRequest(c, body) ==
    /\ ProcessUp
    /\ CanSend(c)
    /\ LET r0 == [NewRequest(c, "POST /api/auth/register") EXCEPT !.body = body]
           issues == registerUserSchema(body)
           r1 == IF issues # {}
                 THEN RegisterRouteCatch(r0, Err("ZodError", "Validation error"), issues)
                 ELSE [r0 EXCEPT !.pc = "check"]
       IN  Settle(c, r1)
    /\ sent' = sent + 1
    /\ UNCHANGED <<users, nextId, clock, ticks, jar, kept, deletes, grants,
                   complaints, nextComplaintId>>

\* storage.getUserByEmail resolves (or rejects): the email-in-use check
RegisterCheck(c) ==
    /\ ProcessUp
    /\ reqs[c].pc = "check"
    /\ \E dbOk \in BOOLEAN :
         LET r == reqs[c]
             existingUser == getUserByEmail(users, r.body.email.s)
             r1 == IF ~dbOk THEN RegisterRouteCatch(r, StoreDown, {})
                   ELSE IF existingUser # NoUser
                   THEN Respond(r, 400, "Email already in use")
                   ELSE [r EXCEPT !.pc = "insert"]
         IN  Settle(c, r1)
    /\ UNCHANGED <<users, nextId, clock, ticks, jar, kept, sent, deletes, grants,
                   complaints, nextComplaintId>>

\* register(): hash, createUser, generateToken; any error is rethrown as
\* Error("Failed to register user").  Then the cookie and the 201.
RegisterInsert(c) ==
    /\ ProcessUp
    /\ reqs[c].pc = "insert"
    /\ nextId <= MaxId
    /\ \E dbOk \in BOOLEAN, salt \in Salts :
         LET r == reqs[c]
             hashedPassword == hashPassword(r.body.password.s, salt)
             values == RegisterValues(r.body, hashedPassword)
             user == createUser(values, nextId)
             token == generateToken(user.id, clock)
             inner == IF ~dbOk THEN StoreDown
                      ELSE IF ViolatesUnique(users, values) THEN UniqueViolation
                      ELSE NoError
             r1 == IF inner # NoError
                   THEN [RegisterRouteCatch(r, RegisterFailed, {})
                            EXCEPT !.logged = inner.message]
                   ELSE [Respond(r, 201, "") EXCEPT !.resUser = user,
                                                    !.setCookie = token]
         IN  /\ Settle(c, r1)
             /\ users' = IF inner = NoError THEN users \cup {user} ELSE users
             /\ nextId' = IF dbOk THEN nextId + 1 ELSE nextId
             /\ jar' = [jar EXCEPT ![c] = JarAfter(c, r1)]
             /\ kept' = [kept EXCEPT ![c] = KeptAfter(c, r1)]
    /\ UNCHANGED <<clock, ticks, sent, deletes, grants, complaints, nextComplaintId>>

(***************************************************************************)
(* POST /api/auth/login                                                    *)
(***************************************************************************)
\* faulty variant: an unknown email is reported as such
login_Revealing(rows, credentials, dbOk, now) ==
    IF ~dbOk THEN [error |-> StoreDown, user |-> NoUser, token |-> NoToken]
    ELSE LET user == getUserByEmail(rows, credentials.email.s)
         IN  IF user = NoUser
             THEN [error |-> Err("Error", "User not found"),
                   user |-> NoUser, token |-> NoToken]
             ELSE IF ~comparePasswords(credentials.password.s, user.password)
             THEN [error |-> InvalidCredentials, user |-> NoUser, token |-> NoToken]
             ELSE [error |-> NoError, user |-> user,
                   token |-> generateToken(user.id, now)]

\* login(): the thrown error, or the user and a fresh token
login(rows, credentials, dbOk, now) ==
    IF ~dbOk THEN [error |-> StoreDown, user |-> NoUser, token |-> NoToken]
    ELSE LET user == getUserByEmail(rows, credentials.email.s)
         IN  IF user = NoUser
             THEN [error |-> InvalidCredentials, user |-> NoUser, token |-> NoToken]
             ELSE IF ~comparePasswords(credentials.password.s, user.password)
             THEN [error |-> InvalidCredentials, user |-> NoUser, token |-> NoToken]
             ELSE [error |-> NoError, user |-> user,
                   token |-> generateToken(user.id, now)]

\* the route's catch: ZodError 400, any Error 401 with its message, else 500
LoginRouteCatch(r, error, issues) ==
    IF error.kind = "ZodError"
    THEN [Respond(r, 400, "Validation error") EXCEPT !.errors = issues]
    ELSE IF error.kind = "Error"
    THEN [Respond(r, 401, error.message) EXCEPT !.logged = error.message]
    ELSE [Respond(r, 500, "Failed to login") EXCEPT !.logged = error.message]

LoginRequest(c, body) ==
    /\ ProcessUp
    /\ CanSend(c)
    /\ LET r0 == [NewRequest(c, "POST /api/auth/login") EXCEPT !.body = body]
           issues == loginSchema(body)
           r1 == IF issues # {}
                 THEN LoginRouteCatch(r0, Err("ZodError", "Validation error"), issues)
                 ELSE [r0 EXCEPT !.pc = "lookup"]
       IN  Settle(c, r1)
    /\ sent' = sent + 1
    /\ UNCHANGED <<users, nextId, clock, ticks, jar, kept, deletes, grants,
                   complaints, nextComplaintId>>

\* storage.getUserByEmail resolves (or rejects), then the comparison
LoginLookup(c) ==
    /\ ProcessUp
    /\ reqs[c].pc = "lookup"
    /\ \E dbOk \in BOOLEAN :
         LET r == reqs[c]
             out == login(users, r.body, dbOk, clock)
             r1 == IF out.error # NoError THEN LoginRouteCatch(r, out.error, {})
                   ELSE [Respond(r, 200, "") EXCEPT !.resUser = out.user,
                                                    !.setCookie = out.token]
         IN  /\ Settle(c, r1)
             /\ jar' = [jar EXCEPT ![c] = JarAfter(c, r1)]
             /\ kept' = [kept EXCEPT ![c] = KeptAfter(c, r1)]
    /\ UNCHANGED <<users, nextId, clock, ticks, sent, deletes, grants,
                   complaints, nextComplaintId>>

(***************************************************************************)
(* POST /api/auth/logout                                                   *)
(***************************************************************************)
\* the handler reads nothing of the request
LogoutRequest(c) ==
    /\ ProcessUp
    /\ CanSend(c)
    /\ LET r0 == NewRequest(c, "POST /api/auth/logout")
           r1 == [Respond(r0, 200, "Logged out successfully")
                     EXCEPT !.clearCookie = TRUE]
       IN  /\ Settle(c, r1)
           /\ jar' = [jar EXCEPT ![c] = JarAfter(c, r1)]
    /\ sent' = sent + 1
    /\ UNCHANGED <<users, nextId, clock, ticks, kept, deletes, grants,
                   complaints, nextComplaintId>>

(***************************************************************************)
(* The gates and the routes behind them.                                   *)
(***************************************************************************)
\* variant: a token the client's last logout cleared is refused, as a server
\* that kept a session per token would
isAuthenticated_Revoking(r, now) ==
    IF r.token = NoToken \/ r.token # jar[r.client] THEN Respond(r, 401, "Unauthorized")
    ELSE LET decoded == verifyToken(r.token, now)
         IN  IF decoded = Null THEN Respond(r, 401, "Unauthorized")
             ELSE [r EXCEPT !.pc = "auth", !.decoded = decoded]

\* faulty variant: the token's payload is read without being verified
isAuthenticated_Unverified(r, now) ==
    IF r.token.fmt # "jwt" THEN Respond(r, 401, "Unauthorized")
    ELSE [r EXCEPT !.pc = "auth",
                   !.decoded = [null |-> FALSE, id |-> r.token.id,
                                iat |-> r.token.iat, exp |-> r.token.exp]]

\* isAuthenticated up to its await: the cookie, verifyToken, then the query
isAuthenticated(r, now) ==
    IF r.token = NoToken THEN Respond(r, 401, "Unauthorized")
    ELSE LET decoded == verifyToken(r.token, now)
         IN  IF decoded = Null THEN Respond(r, 401, "Unauthorized")
             ELSE [r EXCEPT !.pc = "auth", !.decoded = decoded]

\* faulty variant: any attached user passes
isAdmin_AnyUser(user) == IF user = NoUser THEN "reject" ELSE "next"

\* isAdmin: !req.user || !req.user.isAdmin
isAdmin(user) == IF user = NoUser \/ ~user.isAdmin THEN "reject" ELSE "next"

\* the route's own handler, up to its first await
HandlerStart(r) ==
    LET r1 == [r EXCEPT !.ran = Append(@, "handler")]
    IN  IF r.route = "GET /api/auth/user"
        THEN [Respond(r1, 200, "") EXCEPT !.resUser = r.user]
        ELSE IF r.route = "GET /api/auth/admin"
        THEN Respond(r1, 200, "isAdmin: true")
        ELSE [r1 EXCEPT !.pc = "handler"]

\* multer: passes the request on, or passes its error on to express, whose
\* default error handler answers 500
upload(r) == IF r.upload = "ok" THEN "next" ELSE "error"

Uploads == {"ok", "LIMIT_FILE_SIZE"}

HasUpload(route) == \E i \in 1..Len(Chain(route)) : Chain(route)[i] = "upload"

\* express runs the chain from position i until a middleware answers or awaits
\* (multer reads the body only, so its step is taken with the one before it)
RECURSIVE RunFrom(_, _, _)
RunFrom(r, i, now) ==
    IF i > Len(Chain(r.route)) THEN HandlerStart(r)
    ELSE LET r1 == [r EXCEPT !.ran = Append(@, Chain(r.route)[i]), !.pos = i]
         IN  IF Chain(r.route)[i] = "isAuthenticated" THEN isAuthenticated(r1, now)
             ELSE IF Chain(r.route)[i] = "isAdmin" /\ isAdmin(r1.user) = "reject"
             THEN Respond(r1, 403, "Forbidden: Admin access required")
             ELSE IF Chain(r.route)[i] = "upload" /\ upload(r1) = "error"
             THEN [Respond(r1, 500, "Internal Server Error")
                      EXCEPT !.logged = "MulterError: File too large"]
             ELSE RunFrom(r1, i + 1, now)

PromoteRoute == "POST /api/admin/promote/:userId"

\* the routes whose :id or :userId the model reads
ParamRoutes == {PromoteRoute, "GET /api/complaints/:id", "PATCH /api/complaints/:id"}

\* req.query.status of a request
Queries(route) == IF route = "GET /api/complaints" THEN {"", "pending"} ELSE {""}

\* req.body of a complaint request: with and without a userId of its own,
\* with a required field missing; a status update, well-formed or not
ComplaintBodies(route) ==
    IF route = "POST /api/complaints"
    THEN {ComplaintBody(0, TRUE, ""), ComplaintBody(1, TRUE, ""),
          ComplaintBody(2, TRUE, ""), ComplaintBody(1, FALSE, "")}
    ELSE IF route = "PATCH /api/complaints/:id"
    THEN {ComplaintBody(0, TRUE, "completed"), ComplaintBody(0, FALSE, "")}
    ELSE {NoComplaintBody}

GatedRequest(c, route, token, param) ==
    /\ ProcessUp
    /\ CanSend(c)
    /\ token \in Presentable(c)
    /\ param = 0 <=> route \notin ParamRoutes
    /\ \E up \in IF HasUpload(route) THEN Uploads ELSE {"ok"},
          query \in Queries(route), cbody \in ComplaintBodies(route) :
         LET r0 == [NewRequest(c, route) EXCEPT !.token = token, !.param = param,
                                                !.upload = up, !.query = query,
                                                !.cbody = cbody]
         IN  Settle(c, RunFrom(r0, 1, clock))
    /\ sent' = sent + 1
    /\ UNCHANGED <<users, nextId, clock, ticks, jar, kept, deletes, grants,
                   complaints, nextComplaintId>>

\* storage.getUserById resolves (or rejects); then the rest of the chain
GateLookup(c) ==
    /\ ProcessUp
    /\ reqs[c].pc = "auth"
    /\ \E dbOk \in BOOLEAN :
         LET r == reqs[c]
             user == getUserById(users, r.decoded.id)
             r1 == IF ~dbOk
                   THEN [Respond(r, 401, "Unauthorized")
                            EXCEPT !.logged = StoreDown.message]
                   ELSE IF user = NoUser THEN Respond(r, 401, "Unauthorized")
                   ELSE RunFrom([r EXCEPT !.user = user], r.pos + 1, clock)
         IN  Settle(c, r1)
    /\ UNCHANGED <<users, nextId, clock, ticks, jar, kept, sent, deletes, grants,
                   complaints, nextComplaintId>>

\* POST /api/admin/promote/:userId: storage.setUserAsAdmin resolves
PromoteHandler(c) ==
    /\ ProcessUp
    /\ reqs[c].pc = "handler"
    /\ reqs[c].route = PromoteRoute
    /\ \E dbOk \in BOOLEAN :
         LET r == reqs[c]
             target == getUserById(users, r.param)
             r1 == IF ~dbOk
                   THEN [Respond(r, 500, "Failed to promote user to admin")
                            EXCEPT !.logged = StoreDown.message]
                   ELSE IF target = NoUser THEN Respond(r, 404, "User not found")
                   ELSE [Respond(r, 200, "")
                            EXCEPT !.resUser = [target EXCEPT !.isAdmin = TRUE]]
         IN  /\ Settle(c, r1)
             /\ users' = IF dbOk THEN setUserAsAdmin(users, r.param) ELSE users
    /\ UNCHANGED <<nextId, clock, ticks, jar, kept, sent, deletes, grants,
                   complaints, nextComplaintId>>

\* the handler of a resource route answers
ResourceHandler(c) ==
    /\ ProcessUp
    /\ reqs[c].pc = "handler"
    /\ reqs[c].route \in ResourceRoutes
    /\ \E st \in ResourceStatuses(reqs[c].route) :
         Settle(c, Respond(reqs[c], st, ""))
    /\ UNCHANGED <<users, nextId, clock, ticks, jar, kept, sent, deletes, grants,
                   complaints, nextComplaintId>>

(***************************************************************************)
(* The complaint routes.  Each handler awaits the store once; what it does *)
(* before the await reads the request alone, so it is taken with the step  *)
(* in which the store answers.                                             *)
(***************************************************************************)
\* GET /api/complaints
ListComplaints(r, dbOk) ==
    IF r.user = NoUser THEN Respond(r, 401, "User not found")
    ELSE IF ~dbOk
    THEN [Respond(r, 500, "Failed to fetch complaints") EXCEPT !.logged = StoreDown.message]
    ELSE [Respond(r, 200, "")
             EXCEPT !.resComplaints =
                 IF r.user.isAdmin THEN getComplaints(complaints, 0, r.query)
                 ELSE getComplaints(complaints, r.user.id, r.query)]

\* GET /api/complaints/:id
ReadComplaint(r, dbOk) ==
    LET complaint == getComplaint(complaints, r.param)
    IN  IF ~dbOk
        THEN [Respond(r, 500, "Failed to fetch complaint") EXCEPT !.logged = StoreDown.message]
        ELSE IF complaint = NoComplaint THEN Respond(r, 404, "Complaint not found")
        ELSE IF ~r.user.isAdmin /\ complaint.userId # r.user.id
        THEN Respond(r, 403, "Not authorized to view this complaint")
        ELSE [Respond(r, 200, "") EXCEPT !.resComplaints = {complaint}]

\* the values POST /api/complaints hands to storage.createComplaint:
\* { ...req.body, userId, attachments }
ComplaintValues(r) == [r.cbody EXCEPT !.userId = r.user.id]

\* POST /api/complaints: the error the insert throws, if any
InsertComplaintError(r, dbOk) ==
    IF ~dbOk THEN StoreDown
    ELSE IF getUserById(users, ComplaintValues(r).userId) = NoUser
    THEN Err("Error", "insert or update on table violates foreign key constraint")
    ELSE NoError

CreateComplaint(r, dbOk) ==
    IF r.user.id = 0 THEN Respond(r, 401, "Unauthorized")
    ELSE IF ~ComplaintValues(r).complete
    THEN Respond(r, 400, "Invalid complaint data")
    ELSE IF InsertComplaintError(r, dbOk) # NoError
    THEN [Respond(r, 500, "Failed to create complaint")
             EXCEPT !.logged = InsertComplaintError(r, dbOk).message]
    ELSE [Respond(r, 201, "")
             EXCEPT !.resComplaints = {createComplaint(ComplaintValues(r), nextComplaintId)}]

\* PATCH /api/complaints/:id
PatchComplaint(r, dbOk) ==
    IF ~r.cbody.complete THEN Respond(r, 400, "Invalid update data")
    ELSE IF ~dbOk
    THEN [Respond(r, 500, "Failed to update complaint") EXCEPT !.logged = StoreDown.message]
    ELSE IF getComplaint(complaints, r.param) = NoComplaint
    THEN Respond(r, 404, "Complaint not found")
    ELSE [Respond(r, 200, "")
             EXCEPT !.resComplaints =
                 {getComplaint(updateComplaint(complaints, r.param, r.cbody), r.param)}]

ComplaintHandler(c) ==
    /\ ProcessUp
    /\ reqs[c].pc = "handler"
    /\ reqs[c].route \in ComplaintRoutes
    /\ reqs[c].route = "POST /api/complaints" => nextComplaintId <= MaxComplaintId
    /\ \E dbOk \in BOOLEAN :
         LET r == reqs[c]
             r1 == CASE r.route = "GET /api/complaints" -> ListComplaints(r, dbOk)
                     [] r.route = "GET /api/complaints/:id" -> ReadComplaint(r, dbOk)
                     [] r.route = "POST /api/complaints" -> CreateComplaint(r, dbOk)
                     [] OTHER -> PatchComplaint(r, dbOk)
             inserts == r.route = "POST /api/complaints" /\ r1.status \in {201, 500}
                        /\ dbOk
         IN  /\ Settle(c, r1)
             /\ complaints' =
                  IF r.route = "POST /api/complaints" /\ r1.status = 201
                  THEN complaints \cup r1.resComplaints
                  ELSE IF r.route = "PATCH /api/complaints/:id" /\ r1.status = 200
                  THEN updateComplaint(complaints, r.param, r.cbody)
                  ELSE complaints
             /\ nextComplaintId' = IF inserts THEN nextComplaintId + 1 ELSE nextComplaintId
    /\ UNCHANGED <<users, nextId, clock, ticks, jar, kept, sent, deletes, grants>>

(***************************************************************************)
(* The environment: time passes; a row is removed from the users table.    *)
(***************************************************************************)
\* A clock step is days long and a request takes milliseconds: the clock
\* steps between requests.  Only tokens read the clock, and only through
\* differences, so the clock is advanced once a token exists.
Tick ==
    /\ ticks < MaxTicks
    /\ \A c \in Clients : reqs[c].pc = "idle"
    /\ \E c \in Clients : kept[c] # NoToken
    /\ ticks' = ticks + 1
    /\ clock' = clock + ClockStep
    /\ UNCHANGED <<users, nextId, jar, kept, reqs, last, sent, deletes, grants,
                   complaints, nextComplaintId>>

\* a row is deleted from the users table (no route of the process does it)
DeleteUser(u) ==
    /\ u \in users
    /\ deletes < MaxDeletes
    \* complaints.user_id references users.id
    /\ \A k \in complaints : k.userId # u.id
    /\ users' = users \ {u}
    /\ deletes' = deletes + 1
    /\ UNCHANGED <<nextId, clock, ticks, jar, kept, reqs, last, sent, grants,
                   complaints, nextComplaintId>>

\* is_admin of a row is set in the database by its operator: register()
\* stores isAdmin false and the promote route is open to administrators only,
\* so the first administrator who can log in is made this way
GrantAdmin(u) ==
    /\ u \in users
    /\ ~u.isAdmin
    /\ grants < MaxGrants
    /\ users' = setUserAsAdmin(users, u.id)
    /\ grants' = grants + 1
    /\ UNCHANGED <<nextId, clock, ticks, jar, kept, reqs, last, sent, deletes,
                   complaints, nextComplaintId>>

\* the routes requested where the endpoints run beside each other
AuthRoutes == {"GET /api/auth/user", "GET /api/auth/admin", PromoteRoute}

Send(bodies, routes) ==
    \/ \E c \in Clients, body \in bodies : RegisterRequest(c, body)
    \/ \E c \in Clients, body \in LoginBodies : LoginRequest(c, body)
    \/ \E c \in Clients : LogoutRequest(c)
    \/ \E c \in Clients, route \in routes, param \in 0..MaxId :
          \E token \in Presentable(c) : GatedRequest(c, route, token, param)

Serve ==
    \/ \E c \in Clients : RegisterCheck(c)
    \/ \E c \in Clients : RegisterInsert(c)
    \/ \E c \in Clients : LoginLookup(c)
    \/ \E c \in Clients : GateLookup(c)
    \/ \E c \in Clients : PromoteHandler(c)

Environment ==
    \/ Tick
    \/ \E u \in users : DeleteUser(u)
    \/ \E u \in users : GrantAdmin(u)

Next == Send(RegisterBodies, AuthRoutes) \/ Serve \/ Environment

Spec == Init /\ [][Next]_vars

\* every gated route of registerRoutes and of the auth router, requested with
\* the cookie the browser holds or with none
RouteNext ==
    \/ \E c \in Clients, body \in ValidRegisterBodies : RegisterRequest(c, body)
    \/ \E c \in Clients, body \in LoginBodies : LoginRequest(c, body)
    \/ \E c \in Clients, route \in GatedRoutes, param \in 0..MaxId :
          \E token \in {jar[c], NoToken} : GatedRequest(c, route, token, param)
    \/ Serve
    \/ \E c \in Clients : ResourceHandler(c)
    \/ \E c \in Clients : ComplaintHandler(c)
    \/ \E u \in users : GrantAdmin(u)

RouteSpec == Init /\ [][RouteNext]_vars

\* registered visitors on the complaint routes, with the cookie the browser
\* holds or with none
ComplaintNext ==
    \/ \E c \in Clients, body \in ComplaintRegisterBodies : RegisterRequest(c, body)
    \/ \E c \in Clients, route \in ComplaintRoutes, param \in 0..MaxId :
          \E token \in {jar[c], NoToken} : GatedRequest(c, route, token, param)
    \/ \E c \in Clients : RegisterCheck(c)
    \/ \E c \in Clients : RegisterInsert(c)
    \/ \E c \in Clients : GateLookup(c)
    \/ \E c \in Clients : ComplaintHandler(c)
    \/ \E u \in users : GrantAdmin(u)

ComplaintSpec == Init /\ [][ComplaintNext]_vars

\* registration alone, with every combination of violated rules
ValidationNext ==
    \/ \E c \in Clients, body \in AllRegisterBodies : RegisterRequest(c, body)
    \/ \E c \in Clients : RegisterCheck(c)
    \/ \E c \in Clients : RegisterInsert(c)

ValidationSpec == Init /\ [][ValidationNext]_vars

(***************************************************************************)
(* Vocabulary of the properties.                                           *)
(***************************************************************************)
\* a response was sent in this step; it is last'
Responded ==
    \/ sent' # sent /\ reqs' = reqs
    \/ \E c \in Clients : reqs[c].pc # "idle" /\ reqs'[c].pc = "idle"

\* client c's request left position pc in this step
Leaves(c, pc) == reqs[c].pc = pc /\ reqs'[c] # reqs[c]

Ran(r, m) == \E i \in 1..Len(r.ran) : r.ran[i] = m

\* what the client sees of a response
ClientVisible(r) ==
    [status |-> r.status, message |-> r.message, errors |-> r.errors,
     user |-> r.resUser, setCookie |-> r.setCookie, clearCookie |-> r.clearCookie]

RegisterRoute == "POST /api/auth/register"
LoginRoute == "POST /api/auth/login"

(***************************************************************************)
(* C1.  When register() inserts for a valid payload whose email and phone  *)
(* are in no row, and the store does not fail, exactly one row is added:   *)
(* it carries the payload's email and phone, isAdmin = FALSE, and a        *)
(* password that comparePasswords accepts for the plaintext and that is    *)
(* not the plaintext; the response is 201 with that row.                   *)
(***************************************************************************)
C1_Step(c) ==
    LET body == reqs[c].body
        fresh == ~\E u \in users : u.email = body.email.s \/ u.phone = body.phone.s
    IN  (Leaves(c, "insert") /\ registerUserSchema(body) = {} /\ fresh
            /\ last'.logged # StoreDown.message)
        => /\ last'.status = 201
           /\ last'.client = c
           /\ \E u \in users' \ users :
                /\ users' = users \cup {u}
                /\ u.email = body.email.s
                /\ u.phone = body.phone.s
                /\ u.isAdmin = FALSE
                /\ comparePasswords(body.password.s, u.password)
                /\ u.password # body.password.s
                /\ last'.resUser = u

C1_RegisterCreatesOneUser == [][\A c \in Clients : C1_Step(c)]_vars

C1_Witness ==
    /\ last.route = RegisterRoute
    /\ last.status = 201
    /\ last.resUser \in users
    /\ ~last.resUser.isAdmin
    /\ comparePasswords(last.body.password.s, last.resUser.password)

(***************************************************************************)
(* C2.  When the email-in-use check of a register request finds a row with *)
(* the payload's email (as it does for the second of two registrations in  *)
(* sequence), the request is answered 400 "Email already in use", the      *)
(* table is unchanged and holds exactly one row with that email.           *)
(***************************************************************************)
C2_Step(c) ==
    LET email == reqs[c].body.email.s
    IN  (Leaves(c, "check") /\ (\E u \in users : u.email = email)
            /\ last'.logged # StoreDown.message)
        => /\ reqs'[c] = Idle
           /\ last'.client = c
           /\ last'.status = 400
           /\ last'.message = "Email already in use"
           /\ users' = users
           /\ Cardinality({u \in users' : u.email = email}) = 1

C2_SecondRegisterEmailInUse == [][\A c \in Clients : C2_Step(c)]_vars

C2_Witness ==
    /\ last.route = RegisterRoute
    /\ last.status = 400
    /\ last.message = "Email already in use"
    /\ last.body.email.s = JohnEmail
    /\ Cardinality({u \in users : u.email = JohnEmail}) = 1
    \* the row is one an earlier registration created
    /\ \E u \in users : u.email = JohnEmail /\ IsBcryptHash(u.password)

(***************************************************************************)
(* C3.  Two register requests with one email may both pass the check; the  *)
(* table never holds two rows with one email; the request whose insert the *)
(* uniqueness constraint rejects is answered 500 "Failed to register user" *)
(* with the table unchanged; and no error escapes a handler.               *)
(***************************************************************************)
C3_AtMostOnePerEmail ==
    \A u, v \in users : u.email = v.email => u = v

C3_Step(c) ==
    (Leaves(c, "insert")
        /\ (\E u \in users : \/ u.email = reqs[c].body.email.s
                             \/ u.phone = reqs[c].body.phone.s)
        /\ last'.logged # StoreDown.message)
    => /\ last'.client = c
       /\ last'.status = 500
       /\ last'.message = "Failed to register user"
       /\ last'.setCookie = NoToken
       /\ users' = users

C3_ConcurrentRegisterRace ==
    /\ [](C3_AtMostOnePerEmail /\ ProcessUp)
    /\ [][\A c \in Clients : C3_Step(c)]_vars

\* both passed the check, one has inserted, the other waits to insert
C3_Witness ==
    /\ last.route = RegisterRoute
    /\ last.status = 201
    /\ \E c \in Clients :
         /\ reqs[c].pc = "insert"
         /\ reqs[c].body.email = last.body.email
         /\ last.client # c
         /\ last.resUser \in users

\* the loser of the race has been answered
C3_Rejected ==
    /\ last.route = RegisterRoute
    /\ last.status = 500
    /\ last.logged = UniqueViolation.message
    /\ \E u \in users : u.email = last.body.email.s

(***************************************************************************)
(* C4.  Every register request whose password differs from its             *)
(* confirmPassword is answered 400 "Validation error" with an issue at     *)
(* path confirmPassword.                                                   *)
(***************************************************************************)
C4_MismatchNamesConfirmation ==
    (last.route = RegisterRoute /\ last.body.password # last.body.confirmPassword)
    => /\ last.status = 400
       /\ last.message = "Validation error"
       /\ \E i \in last.errors : i.path = "confirmPassword"

\* a request with no fullName and two different passwords has been answered
\* with issues that name other fields only; no row was created for it
C4_Witness ==
    /\ last.route = RegisterRoute
    /\ last.body.fullName = Undefined
    /\ last.body.password # last.body.confirmPassword
    /\ last.status = 400
    /\ last.errors # {}
    /\ ~\E i \in last.errors : i.path = "confirmPassword"
    /\ ~\E u \in users : u.id >= 3

(***************************************************************************)
(* C5.  When login() finds a row with the credentials' email, the          *)
(* credentials' password is the password of that row (the one its hash     *)
(* was made from or, in a seeded row, the one its password column holds),  *)
(* and the store does not fail, the response is 200 with a token that      *)
(* verifyToken accepts and that decodes to that row's id.                  *)
(***************************************************************************)
C5_PasswordOf(password, user) ==
    \/ user.password = password
    \/ \E salt \in Salts : user.password = BcryptHash(password, salt)

C5_Answer(c, user) ==
    /\ last'.client = c
    /\ last'.status = 200
    /\ last'.resUser = user
    /\ verifyToken(last'.setCookie, clock') # Null
    /\ verifyToken(last'.setCookie, clock').id = user.id
    /\ jar'[c] = last'.setCookie

C5_Step(c) ==
    LET body == reqs[c].body
        user == getUserByEmail(users, body.email.s)
    IN  (Leaves(c, "lookup") /\ user # NoUser
            /\ C5_PasswordOf(body.password.s, user)
            /\ last'.logged # StoreDown.message)
        => C5_Answer(c, user)

C5_LoginIssuesTokenForUser == [][\A c \in Clients : C5_Step(c)]_vars

\* a seeded row's email and password have been answered 401
C5_Witness ==
    /\ last.route = LoginRoute
    /\ last.status = 401
    /\ last.logged = InvalidCredentials.message
    /\ \E u \in users \cap userSeeds :
         /\ u.email = last.body.email.s
         /\ u.password = last.body.password.s

\* the part that holds: a row whose password column holds the hash of the
\* credentials' password is answered 200 with a token for its id
C5_HashedStep(c) ==
    LET body == reqs[c].body
        user == getUserByEmail(users, body.email.s)
    IN  (Leaves(c, "lookup") /\ user # NoUser
            /\ (\E salt \in Salts : user.password = BcryptHash(body.password.s, salt))
            /\ last'.logged # StoreDown.message)
        => C5_Answer(c, user)

C5_HashedLoginIssuesToken == [][\A c \in Clients : C5_HashedStep(c)]_vars

C5_HashedLoginAnswered ==
    /\ last.route = LoginRoute
    /\ last.status = 200
    /\ last.resUser \in users
    /\ verifyToken(last.setCookie, clock) # Null
    /\ verifyToken(last.setCookie, clock).id = last.resUser.id

(***************************************************************************)
(* C6.  A login whose email is in no row and a login whose email is in a   *)
(* row whose password does not match are answered with one and the same    *)
(* response: 401 "Invalid email or password", no user, no cookie.          *)
(***************************************************************************)
InvalidLoginResponse ==
    [status |-> 401, message |-> "Invalid email or password", errors |-> {},
     user |-> NoUser, setCookie |-> NoToken, clearCookie |-> FALSE]

C6_Step(c) ==
    LET body == reqs[c].body
        user == getUserByEmail(users, body.email.s)
    IN  (Leaves(c, "lookup")
            /\ (user = NoUser \/ ~comparePasswords(body.password.s, user.password))
            /\ last'.logged # StoreDown.message)
        => /\ last'.client = c
           /\ ClientVisible(last') = InvalidLoginResponse
           /\ jar' = jar

C6_LoginFailuresIndistinguishable == [][\A c \in Clients : C6_Step(c)]_vars

\* the known email with a wrong password has been answered
C6_Witness ==
    /\ last.route = LoginRoute
    /\ ClientVisible(last) = InvalidLoginResponse
    /\ \E u \in users :
         /\ u.email = last.body.email.s
         /\ IsBcryptHash(u.password)
         /\ ~comparePasswords(last.body.password.s, u.password)

\* the unknown email has been answered
C6_UnknownEmailAnswered ==
    /\ last.route = LoginRoute
    /\ ClientVisible(last) = InvalidLoginResponse
    /\ ~\E u \in users : u.email = last.body.email.s

(***************************************************************************)
(* C7.  A token a client was issued is generateToken(id, iat); while fewer *)
(* than TokenTTL seconds have passed since iat, verifyToken returns its    *)
(* id; from then on it returns null; and at any time it returns null for   *)
(* the token with its id or expiry altered, its signature flipped, or for  *)
(* a string that is no token.                                              *)
(***************************************************************************)
C7_Token(t) ==
    /\ t = generateToken(t.id, t.iat)
    /\ clock < t.iat + TokenTTL =>
         /\ verifyToken(t, clock) # Null
         /\ verifyToken(t, clock).id = t.id
    /\ clock >= t.iat + TokenTTL => verifyToken(t, clock) = Null
    /\ \A x \in Tampered(t) \cup {Garbage, NoToken} : verifyToken(x, clock) = Null

C7_TokenRoundTrip ==
    \A c \in Clients : kept[c] # NoToken => C7_Token(kept[c])

\* a token that was accepted half a lifetime ago is now expired
C7_Witness ==
    \E c \in Clients :
        /\ kept[c] # NoToken
        /\ clock = kept[c].iat + TokenTTL
        /\ verifyToken(kept[c], clock) = Null
        /\ verifyToken(kept[c], clock - ClockStep).id = kept[c].id

(***************************************************************************)
(* C8.  A response to GET /api/auth/user is 401, without the handler       *)
(* having run, when the cookie is missing, when verifyToken rejects the    *)
(* token (expired, tampered, malformed), or when the token's id is in no   *)
(* row; the handler runs only in a 200 response, with the row of the       *)
(* token's id attached and returned.                                       *)
(***************************************************************************)
UserRoute == "GET /api/auth/user"

C8_Response(r) ==
    LET decoded == verifyToken(r.token, clock')
        user == getUserById(users', decoded.id)
    IN  /\ r.status \in {200, 401}
        /\ (r.token = NoToken \/ decoded = Null \/ user = NoUser) =>
             /\ r.status = 401
             /\ r.message = "Unauthorized"
             /\ ~Ran(r, "handler")
             /\ r.resUser = NoUser
        /\ Ran(r, "handler") <=> r.status = 200
        /\ r.status = 200 =>
             /\ r.user = user
             /\ r.user # NoUser
             /\ r.user.id = decoded.id
             /\ r.resUser = r.user
        /\ r.ran[1] = "isAuthenticated"

C8_UserRouteGate ==
    [][(Responded /\ last'.route = UserRoute) => C8_Response(last')]_vars

\* a well-signed, unexpired token whose user is gone has been answered 401
C8_Witness ==
    /\ last.route = UserRoute
    /\ last.status = 401
    /\ last.logged = ""
    /\ verifyToken(last.token, clock) # Null
    /\ getUserById(users, last.token.id) = NoUser
    /\ ~Ran(last, "handler")

C8_ExpiredAnswered ==
    /\ last.route = UserRoute
    /\ last.status = 401
    /\ jwtVerify(last.token, JWT_SECRET, clock) = "TokenExpiredError: jwt expired"

C8_Passed ==
    /\ last.route = UserRoute
    /\ last.status = 200
    /\ last.resUser \in users

(***************************************************************************)
(* C9.  A response to GET /api/auth/admin for a request the authentication *)
(* gate attached a row to is 403 when the row's isAdmin is FALSE and 200   *)
(* {isAdmin: true} when it is TRUE; and the chain entered at isAdmin with  *)
(* no row attached answers 403.                                            *)
(***************************************************************************)
AdminRoute == "GET /api/auth/admin"

C9_Response(r) ==
    r.user # NoUser =>
        /\ r.user \in users
        /\ ~r.user.isAdmin =>
             /\ r.status = 403
             /\ r.message = "Forbidden: Admin access required"
             /\ ~Ran(r, "handler")
        /\ r.user.isAdmin =>
             /\ r.status = 200
             /\ r.message = "isAdmin: true"

C9_NoUserAttached ==
    LET r == RunFrom(NewRequest("c1", AdminRoute), 2, clock)
    IN  /\ r.pc = "done"
        /\ r.status = 403
        /\ ~Ran(r, "handler")

C9_AdminRouteGate ==
    /\ []C9_NoUserAttached
    /\ [][(Responded /\ last'.route = AdminRoute) => C9_Response(last')]_vars

C9_Witness ==
    /\ last.route = AdminRoute
    /\ last.status = 200
    /\ last.user.isAdmin
    /\ last.user \in users

C9_NonAdminRejected ==
    /\ last.route = AdminRoute
    /\ last.status = 403
    /\ last.user \in users
    /\ ~last.user.isAdmin

(***************************************************************************)
(* C10.  In every request, isAdmin runs only after isAuthenticated has run *)
(* in that request and attached the row of the token's id; isAdmin rejects *)
(* with 403 or passes the request on by that row's isAdmin flag alone; and *)
(* the handler of a route that installs isAdmin runs only after isAdmin.   *)
(***************************************************************************)
AdminProtected == {r.route : r \in {x \in Routes : \E i \in 1..Len(x.chain) : x.chain[i] = "isAdmin"}}

C10_Request(r) ==
    /\ \A i \in 1..Len(r.ran) : r.ran[i] = "isAdmin" =>
         /\ \E j \in 1..(i - 1) : r.ran[j] = "isAuthenticated"
         /\ r.user # NoUser
         /\ r.token # NoToken
         /\ r.user.id = r.token.id
         \* rejected there, or passed on: by the attached row's flag
         /\ i = Len(r.ran) => r.pc = "done" /\ r.status = 403 /\ ~r.user.isAdmin
         /\ i < Len(r.ran) => r.user.isAdmin
    /\ (r.route \in AdminProtected /\ Ran(r, "handler")) => Ran(r, "isAdmin")

C10_AuthenticationBeforeAuthorization ==
    /\ C10_Request(last)
    /\ \A c \in Clients : C10_Request(reqs[c])

\* an admin-protected resource route let an administrator through
C10_Witness ==
    /\ last.route \in AdminProtected \cap ResourceRoutes
    /\ last.ran = <<"isAuthenticated", "isAdmin", "handler">>
    /\ last.user.isAdmin

C10_Rejected ==
    /\ last.route \in AdminProtected \cap ResourceRoutes
    /\ last.ran = <<"isAuthenticated", "isAdmin">>
    /\ last.status = 403

(***************************************************************************)
(* C11.  Every logout request is answered 200 "Logged out successfully"    *)
(* with the cookie cleared, whether the client held a cookie or not; it    *)
(* changes nothing but the client's cookie, and nothing at all when the    *)
(* cookie was already absent; and a GET /api/auth/user the same client     *)
(* sends next with its cookie jar is answered 401.                         *)
(***************************************************************************)
LogoutRoute == "POST /api/auth/logout"

\* a request was sent and answered in this step, on this route
Answers(route) == sent' # sent /\ reqs' = reqs /\ last'.route = route

C11_Logout ==
    Answers(LogoutRoute) =>
        LET c == last'.client
        IN  /\ last'.status = 200
            /\ last'.message = "Logged out successfully"
            /\ last'.clearCookie
            /\ jar' = [jar EXCEPT ![c] = NoToken]
            /\ UNCHANGED <<users, nextId, kept, reqs, complaints, nextComplaintId>>
            /\ jar[c] = NoToken => jar' = jar

C11_ThenUser ==
    (/\ last.route = LogoutRoute
     /\ Answers(UserRoute)
     /\ last'.client = last.client
     /\ last'.token = jar[last.client])
    => /\ last'.status = 401
       /\ ~Ran(last', "handler")

C11_LogoutIdempotent == [][C11_Logout /\ C11_ThenUser]_vars

\* a client that held a verifying cookie has logged out and the cookie is gone
C11_Witness ==
    /\ last.route = LogoutRoute
    /\ last.status = 200
    /\ jar[last.client] = NoToken
    /\ verifyToken(kept[last.client], clock) # Null

\* a logout was answered for a client that never held a cookie
C11_NoCookie ==
    /\ last.route = LogoutRoute
    /\ last.status = 200
    /\ kept[last.client] = NoToken

(***************************************************************************)
(* C12.  Whether a request passes isAuthenticated is decided by its token, *)
(* the clock and the users table alone: a token that verifyToken accepts   *)
(* (well signed, issued less than TokenTTL ago) and whose id is in a row   *)
(* passes, with that row attached, whatever requests (logout included)     *)
(* were answered since it was issued.                                      *)
(***************************************************************************)
C12_Response(r) ==
    LET decoded == verifyToken(r.token, clock')
    IN  (/\ decoded # Null
         /\ getUserById(users, decoded.id) # NoUser
         /\ r.logged # StoreDown.message)
        => /\ r.status # 401
           /\ r.user # NoUser
           /\ r.user.id = decoded.id
           /\ Ran(r, "isAuthenticated")

C12_NoRevocation ==
    [][(Responded /\ last'.route \in GatedRoutes) => C12_Response(last')]_vars

\* a token passed the gate after the client that holds it had logged out
C12_Witness ==
    /\ last.route = UserRoute
    /\ last.status = 200
    /\ last.token = kept[last.client]
    /\ jar[last.client] = NoToken

(***************************************************************************)
(* C13.  The cookie a 201 register response sets is a token for the id of  *)
(* the row just created, which holds the registered email; an id names one *)
(* row, is never given to a later row, and a row's email never changes;    *)
(* and a 200 response of GET /api/auth/user returns the row of its token's *)
(* id.  So the cookie of a registration returns the registered email,      *)
(* whatever other clients registered or logged in meanwhile, while the     *)
(* token verifies and the row exists.                                      *)
(***************************************************************************)
C13_Registered ==
    (Responded /\ last'.route = RegisterRoute /\ last'.status = 201) =>
        LET decoded == verifyToken(last'.setCookie, clock')
        IN  /\ decoded # Null
            /\ decoded.id = last'.resUser.id
            /\ last'.resUser.email = last'.body.email.s
            /\ last'.resUser \in users'
            /\ last'.resUser.id = nextId
            /\ jar'[last'.client] = last'.setCookie
            /\ kept'[last'.client] = last'.setCookie

C13_RowsKeepIdentity ==
    /\ \A u \in users : u.id < nextId
    /\ \A u, v \in users : u.id = v.id => u = v
    /\ nextId' >= nextId
    /\ \A u \in users, v \in users' : u.id = v.id => u.email = v.email
    /\ \A v \in users' : (\A u \in users : u.id # v.id) => v.id = nextId /\ nextId' > nextId

C13_UserReturned ==
    (Responded /\ last'.route = UserRoute) =>
        LET decoded == verifyToken(last'.token, clock')
            user == getUserById(users, decoded.id)
        IN  (decoded # Null /\ user # NoUser /\ last'.logged # StoreDown.message)
            => /\ last'.status = 200
               /\ last'.resUser = user

C13_RegisterCookieIdentifiesUser ==
    [][C13_Registered /\ C13_RowsKeepIdentity /\ C13_UserReturned]_vars

\* the cookie of the first registration returned its row after a second
\* client had registered
C13_Witness ==
    /\ last.route = UserRoute
    /\ last.status = 200
    /\ last.token = jar[last.client]
    /\ IsBcryptHash(last.resUser.password)
    /\ \E c \in Clients \ {last.client} :
         /\ kept[c] # NoToken
         /\ kept[c].id > last.resUser.id

(***************************************************************************)
(* C14.  On register, login, get-current-user and check-admin, a request   *)
(* during which the store failed is answered 500 with a message that is    *)
(* not the store's error message, and no error escapes the handler.        *)
(***************************************************************************)
AuthEndpoints == {RegisterRoute, LoginRoute, UserRoute, AdminRoute}

C14_StoreFailureIs500 ==
    (last.route \in AuthEndpoints /\ last.logged = StoreDown.message)
    => /\ last.status = 500
       /\ last.message # StoreDown.message
       /\ ~last.unhandled

\* a login during which the store failed was answered 401 with the store's
\* error message
C14_Witness ==
    /\ last.route = LoginRoute
    /\ last.logged = StoreDown.message
    /\ last.status = 401
    /\ last.message = StoreDown.message

\* a gated request during which the store failed was answered 401
C14_GateAnswered401 ==
    /\ last.route \in {UserRoute, AdminRoute}
    /\ last.logged = StoreDown.message
    /\ last.status = 401
    /\ last.message = "Unauthorized"

\* the part that holds: register answers 500 "Failed to register user", and
\* on no endpoint does an error escape
C14_RegisterStoreFailure ==
    /\ ~last.unhandled
    /\ (last.route = RegisterRoute /\ last.logged = StoreDown.message)
       => /\ last.status = 500
          /\ last.message = "Failed to register user"

C14_RegisterAnswered500 ==
    /\ last.route = RegisterRoute
    /\ last.logged = StoreDown.message
    /\ last.status = 500

(***************************************************************************)
(* C15.  In every reachable state, the password column of every row of the *)
(* users table holds a bcrypt hash.                                        *)
(***************************************************************************)
C15_PasswordsAreHashes ==
    \A u \in users : IsBcryptHash(u.password)

\* a row the seed script wrote (its is_admin may have been set since)
C15_Seeded(u) == \E seed \in userSeeds : seed.id = u.id /\ seed.password = u.password

\* the seeded table: a row whose password column holds the seed's password
C15_Witness ==
    \E u \in users :
        /\ C15_Seeded(u)
        /\ ~IsBcryptHash(u.password)
        /\ u.password \in {AdminPassword, Password123}

\* the part that holds: every row register() wrote holds a hash, and not
\* the password of any request
C15_RegisteredAreHashes ==
    \A u \in users :
        ~C15_Seeded(u) =>
            /\ IsBcryptHash(u.password)
            /\ u.password \notin {Password123, AdminPassword, ShortPassword}

C15_RegisteredRow ==
    \E u \in users : ~C15_Seeded(u) /\ IsBcryptHash(u.password)

(***************************************************************************)
(* C16.  A register request whose body violates validation rules is        *)
(* answered 400 "Validation error" with an issue at the path of every      *)
(* field that violates a rule, confirmPassword included, and of no other.  *)
(***************************************************************************)
\* the fields of a body that violate a rule of the registration contract
C16_Violated(body) ==
    {f \in RegisterFields :
        \/ body[f].t # "string"
        \/ f = "email" /\ ~IsEmail(body.email.s)
        \/ f = "phone" /\ ~IsPhone(body.phone.s)
        \/ f = "password" /\ Len(body.password.s) < MinPasswordLen
        \/ f = "confirmPassword" /\ body.confirmPassword # body.password}

C16_Listed(r) == {i.path : i \in r.errors}

C16_AllViolationsListed ==
    (last.route = RegisterRoute /\ C16_Violated(last.body) # {})
    => /\ last.status = 400
       /\ last.message = "Validation error"
       /\ C16_Listed(last) = C16_Violated(last.body)

\* name missing, email malformed, phone short, password short, confirmation
\* different: the answer lists the first four and not confirmPassword
C16_Witness ==
    /\ last.route = RegisterRoute
    /\ last.status = 400
    /\ C16_Violated(last.body) =
         {"fullName", "email", "phone", "password", "confirmPassword"}
    /\ last.body.confirmPassword.t = "string"
    /\ C16_Listed(last) = {"fullName", "email", "phone", "password"}

\* the part that holds: every violating body is answered 400 and creates no
\* row; only violated fields are listed; every violated field but
\* confirmPassword is listed; and when every field is a string, or the
\* confirmation is missing, confirmPassword is listed too
C16_ListedWhenParsed ==
    (last.route = RegisterRoute /\ C16_Violated(last.body) # {})
    => /\ last.status = 400
       /\ last.message = "Validation error"
       /\ last.resUser = NoUser
       /\ C16_Listed(last) \subseteq C16_Violated(last.body)
       /\ C16_Violated(last.body) \ {"confirmPassword"} \subseteq C16_Listed(last)
       /\ ((\A f \in RegisterFields : last.body[f].t = "string")
             \/ last.body.confirmPassword.t # "string")
          => C16_Listed(last) = C16_Violated(last.body)

\* the claim's example: email, phone, password and confirmation all violated
C16_ExampleAnswered ==
    /\ last.route = RegisterRoute
    /\ last.status = 400
    /\ \A f \in RegisterFields : last.body[f].t = "string"
    /\ C16_Listed(last) = {"email", "phone", "password", "confirmPassword"}

(***************************************************************************)
(* C17.  A row's isAdmin goes from FALSE to TRUE only in the handler of    *)
(* POST /api/admin/promote/:userId, for the row of :userId, in a request   *)
(* that passed isAuthenticated and isAdmin with an administrator's row     *)
(* attached (or when the database operator sets it, which is no request);  *)
(* every row register() creates has isAdmin FALSE, also when the body      *)
(* carries isAdmin: true; so while the operator has set no flag, the only  *)
(* administrator there can be is the seeded one, and none in a table that  *)
(* started empty.                                                          *)
(***************************************************************************)
C17_ByPromote(id) ==
    \E c \in Clients :
        /\ Leaves(c, "handler")
        /\ reqs[c].route = PromoteRoute
        /\ reqs[c].param = id
        /\ reqs[c].ran = <<"isAuthenticated", "isAdmin", "handler">>
        /\ reqs[c].user # NoUser
        /\ reqs[c].user.isAdmin
        /\ reqs[c].user.id = reqs[c].token.id
        /\ last'.status = 200

C17_Step ==
    /\ \A u \in users, v \in users' :
         (u.id = v.id /\ ~u.isAdmin /\ v.isAdmin)
         => (grants' # grants \/ C17_ByPromote(u.id))
    /\ \A v \in users' : (\A u \in users : u.id # v.id) => ~v.isAdmin

C17_OnlySeededAdmin ==
    grants = 0 =>
        \A u \in users : u.isAdmin => (u \in userSeeds /\ nextId > Cardinality(userSeeds))

C17_NoPrivilegeEscalation ==
    /\ []C17_OnlySeededAdmin
    /\ [][C17_Step]_vars

\* an administrator has promoted another user's row
C17_Witness ==
    /\ last.route = PromoteRoute
    /\ last.status = 200
    /\ last.user.isAdmin
    /\ last.user.id # last.param
    /\ \E u \in users : u.id = last.param /\ u.isAdmin /\ IsBcryptHash(u.password)

\* a registration carrying isAdmin: true created a row that is no administrator
C17_IsAdminKeyIgnored ==
    /\ last.route = RegisterRoute
    /\ last.status = 201
    /\ last.body.isAdmin = True
    /\ last.resUser \in users
    /\ ~last.resUser.isAdmin

\* a non-administrator's promote request was refused
C17_PromoteRefused ==
    /\ last.route = PromoteRoute
    /\ last.status = 403
    /\ last.user \in users
    /\ ~last.user.isAdmin

(***************************************************************************)
(* C18.  Complaint isolation.  For a request that passed isAuthenticated   *)
(* with a non-administrator's row attached: GET /api/complaints answers    *)
(* 200 with exactly the complaints whose userId is the requester's id      *)
(* (and whose status is the one asked for, if one was), and returns none   *)
(* otherwise; GET /api/complaints/:id of a complaint whose userId is not   *)
(* the requester's id is answered 403 (500 when the store fails) and       *)
(* returns nothing, and whatever it returns is the requester's own.  For   *)
(* any requester, POST /api/complaints answered 201 adds one row, under a  *)
(* fresh id, whose userId is the requester's id whatever userId the body   *)
(* carried, and adds nothing when answered otherwise.  No step changes     *)
(* the userId of a complaint.                                              *)
(***************************************************************************)
C18_Own(r) == {k \in complaints : k.userId = r.user.id}

C18_Step(c) ==
    LET r == reqs[c]
        a == last'
    IN  (r.pc = "handler" /\ r.route \in ComplaintRoutes /\ reqs'[c] # r) =>
          /\ a.client = c /\ a.route = r.route /\ a.user = r.user
          /\ r.user # NoUser
          /\ (r.route = "GET /api/complaints" /\ ~r.user.isAdmin) =>
                /\ a.status \in {200, 500}
                /\ a.status = 200 =>
                     a.resComplaints =
                        {k \in C18_Own(r) : r.query = "" \/ k.status = r.query}
                /\ a.status # 200 => a.resComplaints = {}
          /\ (r.route = "GET /api/complaints/:id" /\ ~r.user.isAdmin) =>
                /\ a.resComplaints \subseteq C18_Own(r)
                /\ (\E k \in complaints : k.id = r.param /\ k.userId # r.user.id) =>
                      a.status \in {403, 500} /\ a.resComplaints = {}
          /\ r.route = "POST /api/complaints" =>
                IF a.status = 201
                THEN \E k \in a.resComplaints :
                        /\ a.resComplaints = {k}
                        /\ k.userId = r.user.id
                        /\ \A old \in complaints : old.id # k.id
                        /\ complaints' = complaints \cup {k}
                ELSE complaints' = complaints

C18_OwnerKept ==
    /\ \A k \in complaints : \E n \in complaints' : n.id = k.id /\ n.userId = k.userId
    /\ \A k1, k2 \in complaints' : k1.id = k2.id => k1 = k2

C18_ComplaintIsolation == [][C18_OwnerKept /\ \A c \in Clients : C18_Step(c)]_vars

\* a non-administrator asked for another user's complaint and got 403
C18_Witness ==
    /\ last.route = "GET /api/complaints/:id"
    /\ last.status = 403
    /\ last.user # NoUser /\ ~last.user.isAdmin
    /\ \E k \in complaints : k.id = last.param /\ k.userId # last.user.id
    /\ last.resComplaints = {}

\* a body naming another user's id created a complaint of the requester
C18_BodyUserIdIgnored ==
    /\ last.route = "POST /api/complaints"
    /\ last.status = 201
    /\ last.cbody.userId \notin {0, last.user.id}
    /\ \E k \in complaints : k \in last.resComplaints /\ k.userId = last.user.id

\* a non-administrator listed complaints while another user's existed and
\* got its own one only
C18_ListedOwn ==
    /\ last.route = "GET /api/complaints"
    /\ last.status = 200
    /\ ~last.user.isAdmin
    /\ last.resComplaints # {}
    /\ \E k \in complaints : k.userId # last.user.id

\* an administrator listed complaints and got another user's
C18_AdminListedAll ==
    /\ last.route = "GET /api/complaints"
    /\ last.status = 200
    /\ last.user.isAdmin
    /\ \E k \in last.resComplaints : k.userId # last.user.id

====
